---- MODULE Spec2Model ----
(***************************************************************************)
(* Model of the PDF outline extractor (src/src/processor.py) and of the    *)
(* two batch drivers (processor.py __main__ and main.py).                  *)
(*                                                                         *)
(* Representation                                                          *)
(*   - a text is a sequence of one-character strings;                      *)
(*   - font sizes and the sizes of the font profile are integers counting  *)
(*     half points (36 stands for 18.0 pt, 21 for 10.5 pt), so that the    *)
(*     rounding of _analyze_fonts and the 0.5 pt tolerance of the level    *)
(*     lookup are computed and not assumed;                                *)
(*   - the score of _is_heading_candidate is computed exactly, in tenths   *)
(*     multiplied by body_size (no floating point rounding);               *)
(*   - a document is what fitz hands to the extractor: name (pdf_path),    *)
(*     openable (fitz.open succeeds), toc (get_toc()), metaTitle           *)
(*     (metadata['title'], <<>> when metadata or the key is missing) and   *)
(*     pages, each with a width and its lines in enumeration order (the    *)
(*     blocks of a page are flattened), each line with a bbox and spans.   *)
(***************************************************************************)
EXTENDS Integers, Sequences, FiniteSets

VARIABLES doc, pc, font_profiles, result, files, idx, outputs, driver, bpc

vars == <<doc, pc, font_profiles, result, files, idx, outputs, driver, bpc>>

-----------------------------------------------------------------------------
(* Bounds of the checked inputs *)

\* longest native table of contents
MaxToc == 2
\* largest TOC level tried (levels run from 0 to MaxLevel)
MaxLevel == 4
\* most lines in a document of the heuristic family
MaxLines == 3
\* most lines on page 0 in a document of the title family
MaxTitleLines == 2
\* most spans of one size in a document of the font family
MaxCount == 6
\* most files in a batch
MaxFiles == 2

-----------------------------------------------------------------------------
(* Characters *)

LowerSeq ==
    <<"a","b","c","d","e","f","g","h","i","j","k","l","m",
      "n","o","p","q","r","s","t","u","v","w","x","y","z">>

UpperSeq ==
    <<"A","B","C","D","E","F","G","H","I","J","K","L","M",
      "N","O","P","Q","R","S","T","U","V","W","X","Y","Z">>

Range(s) == {s[i] : i \in DOMAIN s}

\* the first n elements of s, and s without them
Take(s, n) == [i \in 1..n |-> s[i]]

Drop(s, n) == [i \in 1..(Len(s) - n) |-> s[n + i]]

LowerChars == Range(LowerSeq)

UpperChars == Range(UpperSeq)

DigitChars == {"0","1","2","3","4","5","6","7","8","9"}

\* \w of the regular expressions
WordChars == LowerChars \cup UpperChars \cup DigitChars \cup {"_"}

\* \s of the regular expressions
SpaceChars == {" ", "\t", "\n"}

\* the punctuation kept by _clean_text
KeptPunct == {".", ",", ":", ";", "!", "?", "(", ")", "-"}

\* str.lower() of one character
LowerOf(c) ==
    IF c \in UpperChars
    THEN LowerSeq[CHOOSE i \in DOMAIN UpperSeq : UpperSeq[i] = c]
    ELSE c

-----------------------------------------------------------------------------
(* _clean_text *)

\* re.sub(r'[^\w\s.,:;!?()-]', '', text)
IsAllowed(c) == c \in WordChars \cup SpaceChars \cup KeptPunct

RemoveDisallowed(t) == SelectSeq(t, IsAllowed)

\* re.sub(r'\s+', ' ', text): every maximal run of whitespace becomes one
\* space (the last character of the run is the one replaced, the others go)
IsSpace(c) == c \in SpaceChars

EndsRun(t, i) == ~(IsSpace(t[i]) /\ i < Len(t) /\ IsSpace(t[i + 1]))

IsKept(m) == m.keep

CollapseSpaces(t) ==
    LET marked == [i \in DOMAIN t |->
                      [c |-> IF IsSpace(t[i]) THEN " " ELSE t[i], keep |-> EndsRun(t, i)]]
        kept   == SelectSeq(marked, IsKept)
    IN  [i \in DOMAIN kept |-> kept[i].c]

\* str.lstrip()
LStrip(t) ==
    Drop(t, Cardinality({i \in DOMAIN t : \A j \in 1..i : IsSpace(t[j])}))

\* str.rstrip()
RStrip(t) ==
    Take(t, Len(t) - Cardinality({i \in DOMAIN t : \A j \in i..Len(t) : IsSpace(t[j])}))

\* str.strip()
Strip(t) == RStrip(LStrip(t))

clean_text(text) ==
    IF text = <<>> THEN <<>>
    ELSE Strip(CollapseSpaces(RemoveDisallowed(text)))

-----------------------------------------------------------------------------
(* Sizes *)

\* round(span["size"]) on a size in half points: Python rounds a tie to the
\* even integer; the result is again in half points
Round(n) ==
    IF n % 2 = 0 THEN n
    ELSE LET k == (n - 1) \div 2
         IN  IF k % 2 = 0 THEN 2 * k ELSE 2 * k + 2

\* DBSCAN(eps=0.5): two sizes are neighbours when at most 0.5 pt (1 half point) apart
DbscanEps == 1

\* DBSCAN(min_samples=5)
MinSamples == 5

Abs(x) == IF x < 0 THEN -x ELSE x

\* the spans of a document in the order _analyze_fonts visits them
RECURSIVE Flatten(_)
Flatten(ss) ==
    IF ss = <<>> THEN <<>> ELSE Head(ss) \o Flatten(Tail(ss))

PageSpans(page) == Flatten([i \in DOMAIN page.lines |-> page.lines[i].spans])

DocSpans(d) == Flatten([i \in DOMAIN d.pages |-> PageSpans(d.pages[i])])

-----------------------------------------------------------------------------
(* _analyze_fonts *)

\* font_data: the rounded size of every span, in visiting order
FontData(d) == LET sp == DocSpans(d) IN [i \in DOMAIN sp |-> Round(sp[i].size)]

\* the points DBSCAN finds within eps of point i (the point itself included)
Neighbours(sizes, i) ==
    {j \in DOMAIN sizes : Abs(sizes[i] - sizes[j]) <= DbscanEps}

\* point i is a core point: label >= 0. Rounded sizes are whole points, at least
\* 2 half points apart, so the neighbours of a point are the points of its own
\* size, a point is in a cluster iff it is a core point, and a cluster is all
\* the spans of one size
IsCore(sizes, i) == Cardinality(Neighbours(sizes, i)) >= MinSamples

\* size_clusters, in the insertion order of the dict (the order in which the
\* first member of each cluster is met), each cluster with its size and length
RECURSIVE SizeClustersFrom(_, _, _)
SizeClustersFrom(sizes, i, acc) ==
    IF i > Len(sizes) THEN acc
    ELSE IF IsCore(sizes, i) /\ \A k \in DOMAIN acc : acc[k].size # sizes[i]
         THEN SizeClustersFrom(sizes, i + 1,
                  Append(acc, [size  |-> sizes[i],
                               count |-> Cardinality(Neighbours(sizes, i))]))
         ELSE SizeClustersFrom(sizes, i + 1, acc)

SizeClusters(sizes) == SizeClustersFrom(sizes, 1, <<>>)

\* statistics.median of a cluster: all its members have the same size
Median(cluster) == cluster.size

\* max(size_clusters, key=len): the first cluster of the largest length
BodyCluster(clusters) ==
    LET best == CHOOSE i \in DOMAIN clusters :
                    /\ \A j \in DOMAIN clusters : clusters[j].count <= clusters[i].count
                    /\ \A j \in 1..(i - 1) : clusters[j].count < clusters[i].count
    IN  clusters[best]

\* median(v) > body_size * 1.2
IsHeadingCluster(cluster, body_size) == 5 * Median(cluster) > 6 * body_size

\* heading_clusters.values()
RECURSIVE HeadingSizes(_, _)
HeadingSizes(clusters, body_size) ==
    IF clusters = <<>> THEN <<>>
    ELSE IF IsHeadingCluster(Head(clusters), body_size)
         THEN <<Median(Head(clusters))>> \o HeadingSizes(Tail(clusters), body_size)
         ELSE HeadingSizes(Tail(clusters), body_size)

\* inserts x into a descending sequence
RECURSIVE InsertDesc(_, _)
InsertDesc(x, s) ==
    IF s = <<>> THEN <<x>>
    ELSE IF x > Head(s) THEN <<x>> \o s
         ELSE <<Head(s)>> \o InsertDesc(x, Tail(s))

\* sorted(values, reverse=True)
RECURSIVE SortDesc(_)
SortDesc(s) ==
    IF s = <<>> THEN <<>> ELSE InsertDesc(Head(s), SortDesc(Tail(s)))

\* size_map, as the sequence of its items in insertion order
SizeMapTwo(sorted_sizes) ==
    IF Len(sorted_sizes) > 1 THEN sorted_sizes[2] ELSE sorted_sizes[1]

\* SizeMapThree reusing the largest size instead of the smallest
SizeMapThreeFirst(sorted_sizes) ==
    IF Len(sorted_sizes) > 2 THEN sorted_sizes[3] ELSE sorted_sizes[1]

SizeMapThree(sorted_sizes) ==
    IF Len(sorted_sizes) > 2 THEN sorted_sizes[3] ELSE sorted_sizes[Len(sorted_sizes)]

SizeMap(sorted_sizes) ==
    IF sorted_sizes = <<>> THEN <<>>
    ELSE << [lvl |-> "H1", size |-> sorted_sizes[1]],
            [lvl |-> "H2", size |-> SizeMapTwo(sorted_sizes)],
            [lvl |-> "H3", size |-> SizeMapThree(sorted_sizes)] >>

\* the {} returned for a document without spans
EmptyProfile == [status |-> "ok", empty |-> TRUE, body_size |-> 0, size_map |-> <<>>]

\* what the call raises instead of returning
Raised == [status |-> "raise", empty |-> TRUE, body_size |-> 0, size_map |-> <<>>]

\* analyze_fonts without the `if not font_data` test
analyze_fonts_unguarded(d) ==
    LET clusters == SizeClusters(FontData(d))
    IN  IF clusters = <<>> THEN Raised
        ELSE LET body_size == Median(BodyCluster(clusters))
             IN  [status    |-> "ok",
                  empty     |-> FALSE,
                  body_size |-> body_size,
                  size_map  |-> SizeMap(SortDesc(HeadingSizes(clusters, body_size)))]

\* font_styles and raw_data of the returned dict are read by no method and are
\* left out
analyze_fonts(d) ==
    LET sizes    == FontData(d)
        clusters == SizeClusters(sizes)
    IN  IF sizes = <<>> THEN EmptyProfile
        ELSE IF clusters = <<>> THEN Raised
        ELSE LET body_size == Median(BodyCluster(clusters))
             IN  [status    |-> "ok",
                  empty     |-> FALSE,
                  body_size |-> body_size,
                  size_map  |-> SizeMap(SortDesc(HeadingSizes(clusters, body_size)))]

-----------------------------------------------------------------------------
(* _get_title *)

\* the loop over the spans of page 0: the text of the first span whose size is
\* larger than every size before it (and than 0); <<>> stands for None
RECURSIVE LargestSpanText(_, _, _)
LargestSpanText(spans, max_size, candidate) ==
    IF spans = <<>> THEN candidate
    ELSE IF Head(spans).size > max_size
         THEN LargestSpanText(Tail(spans), Head(spans).size, Head(spans).text)
         ELSE LargestSpanText(Tail(spans), max_size, candidate)

\* os.path.basename
RECURSIVE Basename(_)
Basename(path) ==
    IF \E i \in DOMAIN path : path[i] = "/"
    THEN Basename(Tail(path))
    ELSE path

DotPdf == <<".", "p", "d", "f">>

\* str.replace('.pdf', ''): every occurrence, left to right, whatever its place
RECURSIVE RemovePdf(_)
RemovePdf(t) ==
    IF t = <<>> THEN <<>>
    ELSE IF Len(t) >= Len(DotPdf) /\ Take(t, Len(DotPdf)) = DotPdf
         THEN RemovePdf(Drop(t, Len(DotPdf)))
         ELSE <<Head(t)>> \o RemovePdf(Tail(t))

FilenameTitle(d) == RemovePdf(Basename(d.name))

\* step 1 of the chain: the cleaned metadata title, <<>> when there is none
MetadataTitle(d) ==
    IF d.metaTitle # <<>> THEN clean_text(d.metaTitle) ELSE <<>>

\* step 2 of the chain: [found, title]. self.doc[0] raises on a document
\* without pages and the bare except swallows it
FirstPageTitle(d) ==
    IF d.pages = <<>> THEN [found |-> FALSE, title |-> <<>>]
    ELSE LET candidate == LargestSpanText(PageSpans(d.pages[1]), 0, <<>>)
         IN  IF candidate # <<>>
             THEN [found |-> TRUE, title |-> clean_text(candidate)]
             ELSE [found |-> FALSE, title |-> <<>>]

get_title(d) ==
    IF MetadataTitle(d) # <<>> THEN MetadataTitle(d)
    ELSE IF FirstPageTitle(d).found THEN FirstPageTitle(d).title
    ELSE FilenameTitle(d)

-----------------------------------------------------------------------------
(* _extract_from_toc *)

\* f"H{level}" for the levels that pass the test
LevelTag(level) == <<"H1", "H2", "H3">>[level]

Max(a, b) == IF a >= b THEN a ELSE b

Min(a, b) == IF a <= b THEN a ELSE b

TocLevelKept(level) == 1 <= level /\ level <= 3

\* TocEntry without the max(0, ...) around the page
TocEntryNoClamp(e) ==
    [level |-> LevelTag(e.level), text |-> clean_text(e.title), page |-> e.page - 1]

TocEntry(e) ==
    [level |-> LevelTag(e.level), text |-> clean_text(e.title), page |-> Max(0, e.page - 1)]

RECURSIVE extract_from_toc(_)
extract_from_toc(toc) ==
    IF toc = <<>> THEN <<>>
    ELSE IF TocLevelKept(Head(toc).level)
         THEN <<TocEntry(Head(toc))>> \o extract_from_toc(Tail(toc))
         ELSE extract_from_toc(Tail(toc))

-----------------------------------------------------------------------------
(* _is_heading_candidate *)

IsWord(c) == c \in WordChars

\* \b after the first p characters of t (1 <= p <= Len(t))
BoundaryAfter(t, p) == IsWord(t[p]) # (p < Len(t) /\ IsWord(t[p + 1]))

\* the keyword alternatives of heading_pattern
Keywords ==
    { <<"c","h","a","p","t","e","r">>, <<"s","e","c","t","i","o","n">>,
      <<"a","p","p","e","n","d","i","x">>, <<"p","a","r","t">>,
      <<"a","r","t","i","c","l","e">> }

\* t starts with keyword kw, whatever the case (re.IGNORECASE)
StartsWithKeyword(t, kw) ==
    /\ Len(t) >= Len(kw)
    /\ \A i \in DOMAIN kw : LowerOf(t[i]) = kw[i]

\* the first p characters of t match \d+(\.\d+)*
IsNumeral(t, p) ==
    /\ p >= 1
    /\ \A i \in 1..p : t[i] \in DigitChars \cup {"."}
    /\ t[1] \in DigitChars
    /\ t[p] \in DigitChars
    /\ \A i \in 1..(p - 1) : ~(t[i] = "." /\ t[i + 1] = ".")

\* [A-Z] under re.IGNORECASE
IsLetter(c) == c \in UpperChars \cup LowerChars

\* bool(heading_pattern.match(text)): some alternative matches a prefix that
\* ends at a word boundary
has_numbering(t) ==
    \/ \E kw \in Keywords : StartsWithKeyword(t, kw) /\ BoundaryAfter(t, Len(kw))
    \/ \E p \in 1..Len(t) : IsNumeral(t, p) /\ BoundaryAfter(t, p)
    \/ /\ Len(t) >= 1
       /\ IsLetter(t[1])
       /\ \/ BoundaryAfter(t, 1)
          \/ Len(t) >= 2 /\ t[2] = "." /\ BoundaryAfter(t, 2)

\* str.istitle(): an uppercase letter only after an uncased character, a
\* lowercase letter only after a cased one, and at least one letter
IsTitle(t) ==
    /\ \E i \in DOMAIN t : IsLetter(t[i])
    /\ \A i \in DOMAIN t :
          /\ t[i] \in UpperChars => (i = 1 \/ ~IsLetter(t[i - 1]))
          /\ t[i] \in LowerChars => (i > 1 /\ IsLetter(t[i - 1]))

\* str.isupper(): no lowercase letter and at least one uppercase letter
IsUpper(t) ==
    /\ \A i \in DOMAIN t : t[i] \notin LowerChars
    /\ \E i \in DOMAIN t : t[i] \in UpperChars

is_title_case(t) == IsTitle(t) \/ IsUpper(t)

\* bool(font_flags & 2**0)
is_bold(font_flags) == font_flags % 2 = 1

\* position is (center_x, page_width) as the caller passes it, center_x doubled
\* (bbox[0] + bbox[2]) to stay in the integers:
\* position[0] > page_width * 0.3 and position[1] < page_width * 0.7
is_centered(position, page_width) ==
    /\ 5 * position[1] > 3 * page_width
    /\ 10 * position[2] < 7 * page_width

\* the length test of the score: len(text) < 80
ShortTextLimit == 80

\* the bonuses of the score, in tenths
Bonus(text, font_flags, position, page_width) ==
      (IF is_bold(font_flags) THEN 10 ELSE 0)
    + (IF has_numbering(text) THEN 8 ELSE 0)
    + (IF is_centered(position, page_width) THEN 6 ELSE 0)
    + (IF is_title_case(text) THEN 5 ELSE 0)
    + (IF Len(text) < ShortTextLimit THEN 4 ELSE -2)

\* size_ratio as a fraction: font_size / body_size if body_size > 0 else 1
RatioNum(profile, font_size) == IF profile.body_size > 0 THEN font_size ELSE 1

RatioDen(profile) == IF profile.body_size > 0 THEN profile.body_size ELSE 1

\* score > 3.0, both sides multiplied by 10 * RatioDen
is_heading_candidate(profile, text, font_size, font_flags, position, page_width) ==
    LET num == RatioNum(profile, font_size)
        den == RatioDen(profile)
    IN  15 * Min(3 * den, num) + den * Bonus(text, font_flags, position, page_width)
            > 30 * den

-----------------------------------------------------------------------------
(* _extract_headings_heuristic *)

\* line_text: the texts of the spans of a line, concatenated
LineText(line) == Flatten([i \in DOMAIN line.spans |-> line.spans[i].text])

\* the loop over the spans of a line: max_size and the flags of the first span
\* of that size (0 and 0 when no span is larger than 0)
RECURSIVE LineFont(_, _, _)
LineFont(spans, max_size, font_flags) ==
    IF spans = <<>> THEN [max_size |-> max_size, font_flags |-> font_flags]
    ELSE IF Head(spans).size > max_size
         THEN LineFont(Tail(spans), Head(spans).size, Head(spans).flags)
         ELSE LineFont(Tail(spans), max_size, font_flags)

\* the loop over size_map.items(): the first level within 0.5 pt, else "H3"
RECURSIVE LevelFor(_, _)
LevelFor(size_map, max_size) ==
    IF size_map = <<>> THEN "H3"
    ELSE IF Abs(max_size - Head(size_map).size) < 1
         THEN Head(size_map).lvl
         ELSE LevelFor(Tail(size_map), max_size)

\* center_x, doubled
CenterX2(line) == line.bbox[1] + line.bbox[3]

\* the body of the loop for one line: the entries it appends (none or one)
LineEntries(profile, line, p_num, page_width) ==
    LET text == clean_text(LineText(line))
        font == LineFont(line.spans, 0, 0)
    IN  IF text = <<>> \/ Len(text) < 3 THEN <<>>
        ELSE IF is_heading_candidate(profile, text, font.max_size, font.font_flags,
                                     <<CenterX2(line), page_width>>, page_width)
             THEN << [level |-> LevelFor(profile.size_map, font.max_size),
                      text  |-> text,
                      page  |-> p_num] >>
             ELSE <<>>

PageEntries(profile, page, p_num) ==
    Flatten([i \in DOMAIN page.lines |->
                LineEntries(profile, page.lines[i], p_num, page.width)])

\* outline before the duplicates are removed; enumerate() counts pages from 0
DetectedHeadings(d, profile) ==
    Flatten([i \in DOMAIN d.pages |-> PageEntries(profile, d.pages[i], i - 1)])

\* the final comprehension: an item is kept iff its text is not in seen
RECURSIVE DedupFrom(_, _)
DedupFrom(items, seen) ==
    IF items = <<>> THEN <<>>
    ELSE IF Head(items).text \in seen
         THEN DedupFrom(Tail(items), seen)
         ELSE <<Head(items)>> \o DedupFrom(Tail(items), seen \cup {Head(items).text})

\* Dedup that removes nothing
NoDedup(items) == items

Dedup(items) == DedupFrom(items, {})

extract_headings_heuristic(d, profile) ==
    IF profile.empty THEN <<>>
    ELSE Dedup(DetectedHeadings(d, profile))

-----------------------------------------------------------------------------
(* get_structured_outline *)

\* Outline, falling back on the detector when the TOC yields no entry
OutlineFallsBack(d, profile) ==
    IF d.toc # <<>> /\ extract_from_toc(d.toc) # <<>> THEN extract_from_toc(d.toc)
    ELSE extract_headings_heuristic(d, profile)

Outline(d, profile) ==
    IF d.toc # <<>> THEN extract_from_toc(d.toc)
    ELSE extract_headings_heuristic(d, profile)

get_structured_outline(d, profile) ==
    [kind |-> "result", title |-> get_title(d), outline |-> Outline(d, profile)]

-----------------------------------------------------------------------------
(* The documents the extractor is run on *)

Span(text, size, flags) == [text |-> text, size |-> size, flags |-> flags]

\* n copies of x
Rep(x, n) == [i \in 1..n |-> x]

\* the sequences over S of length at most n
SeqsUpTo(S, n) == UNION {[1..k -> S] : k \in 0..n}

PageWidth == 600

BodyText == <<"b","o","d","y"," ">>

\* five spans of running text at 10 pt
BodyLine ==
    [bbox |-> <<50, 100, 550, 112>>, spans |-> Rep(Span(BodyText, 20, 0), 5)]

\* a bold 18 pt line in the middle of the page
HeadLine ==
    [bbox |-> <<250, 40, 350, 60>>, spans |-> <<Span(<<"I","n","t","r","o">>, 36, 1)>>]

\* five 18 pt spans: a size cluster of its own
BigLine ==
    [bbox |-> <<50, 200, 300, 220>>,
     spans |-> Rep(Span(<<"P","a","r","t"," ">>, 36, 0), 5)]

\* a bold 14 pt line whose cleaned text is that of HeadLine
DupLine ==
    [bbox |-> <<50, 300, 200, 316>>,
     spans |-> <<Span(<<" ","*","I","n","t","r","o","*"," ">>, 28, 1)>>]

\* a small bold span before a larger plain one
NumLine ==
    [bbox |-> <<50, 400, 250, 416>>,
     spans |-> <<Span(<<"1",".","2"," ">>, 20, 1),
                 Span(<<"S","c","o","p","e">>, 28, 0)>>]

\* the largest span holds only characters _clean_text removes; 10.5 pt beside
\* it, and the cleaned line is too short to be a heading
StarLine ==
    [bbox |-> <<50, 500, 120, 530>>,
     spans |-> <<Span(<<"*","*","*">>, 48, 0), Span(<<"x">>, 21, 0)>>]

LineChoices == {BodyLine, HeadLine, BigLine, DupLine, NumLine, StarLine}

Page(lines) == [width |-> PageWidth, lines |-> lines]

\* the pages holding `lines`, the first k of them on page 0 and the rest, if
\* any, on page 1
SplitPages(lines, k) ==
    IF k = Len(lines) THEN <<Page(lines)>>
    ELSE <<Page(Take(lines, k)), Page(Drop(lines, k))>>

NameA == <<"a",".","p","d","f">>

NameB == <<"i","n","/","b",".","P","D","F">>

NameC == <<"c",".","p","d","f","s",".","p","d","f">>

NameChoices == {NameA, NameB, NameC}

\* no title, a title, a title of removed characters only, a title of spaces only
MetaChoices == { <<>>, <<"R","e","p","o","r","t">>, <<"*","#">>, <<" "," ">> }

Doc(name, openable, toc, metaTitle, pages) ==
    [name |-> name, openable |-> openable, toc |-> toc,
     metaTitle |-> metaTitle, pages |-> pages]

\* documents without a native TOC, for the heuristic detector
HeurDocs ==
    UNION { { Doc(NameA, TRUE, <<>>, <<>>, SplitPages(ls, k)) : k \in 0..Len(ls) } :
                ls \in SeqsUpTo(LineChoices, MaxLines) }

TocTitles == { <<"I","n","t","r","o">>, <<"*","*">> }

\* get_toc() gives -1 for an entry without a target page
TocPageNumbers == {-1, 2}

TocEntries == [level : 0..MaxLevel, title : TocTitles, page : TocPageNumbers]

\* documents with a native TOC, over pages in which the detector finds a heading
TocDocs ==
    { Doc(NameA, TRUE, toc, <<>>, <<Page(<<BodyLine, HeadLine>>)>>) :
        toc \in SeqsUpTo(TocEntries, MaxToc) \ {<<>>} }

\* documents for the title chain: every metadata title and name over the first
\* pages of at most MaxTitleLines lines, and over no page at all
TitleDocs ==
    { Doc(n, TRUE, <<>>, m, pages) :
        n \in NameChoices, m \in MetaChoices,
        pages \in {<<Page(ls)>> : ls \in SeqsUpTo(LineChoices, MaxTitleLines)}
                  \cup {<<>>} }

\* the sizes of the font family, in half points: 10, 13.5, 16, 18 and 24 pt
FontSizes == <<20, 27, 32, 36, 48>>

\* how many spans of one size: none, or one less than min_samples and upwards
CountChoices == {0} \cup ((MinSamples - 1)..MaxCount)

FontLine(size, count) ==
    [bbox |-> <<50, size, 550, 2 * size>>,
     spans |-> Rep(Span(<<"t","e","x","t">>, size, 0), count)]

\* documents for the font profile: one line per size, count[i] spans on it
FontDocs ==
    { Doc(NameA, TRUE, <<>>, <<>>,
          <<Page([i \in DOMAIN FontSizes |-> FontLine(FontSizes[i], count[i])])>>) :
        count \in [DOMAIN FontSizes -> CountChoices] }

\* a file fitz.open rejects
BrokenDoc == Doc(NameA, FALSE, <<>>, <<>>, <<>>)

DocChoices == HeurDocs \cup TocDocs \cup TitleDocs \cup FontDocs \cup {BrokenDoc}

-----------------------------------------------------------------------------
(* The extractor *)

\* no extractor yet
NoDoc == Doc(<<>>, FALSE, <<>>, <<>>, <<>>)

NotBuilt == [status |-> "none", empty |-> TRUE, body_size |-> 0, size_map |-> <<>>]

NoResult == [kind |-> "none", title |-> <<>>, outline |-> <<>>]

\* __init__ runs to its end: every exception of its body becomes RuntimeError
InitSucceeds(d) == d.openable /\ analyze_fonts(d).status = "ok"

Init ==
    /\ doc \in DocChoices
    /\ pc = "new"
    /\ font_profiles = NotBuilt
    /\ result = NoResult
    /\ files = <<>>
    /\ idx = 1
    /\ outputs = <<>>
    /\ driver = "none"
    /\ bpc = "idle"

\* RobustOutlineExtractor(pdf_path) returns the extractor
ConstructOk ==
    /\ pc = "new"
    /\ InitSucceeds(doc)
    /\ font_profiles' = analyze_fonts(doc)
    /\ pc' = "ready"
    /\ UNCHANGED <<doc, result, files, idx, outputs, driver, bpc>>

\* RobustOutlineExtractor(pdf_path) raises RuntimeError
ConstructRaises ==
    /\ pc = "new"
    /\ ~InitSucceeds(doc)
    /\ pc' = "failed"
    /\ UNCHANGED <<doc, font_profiles, result, files, idx, outputs, driver, bpc>>

GetStructuredOutline ==
    /\ pc = "ready"
    /\ result' = get_structured_outline(doc, font_profiles)
    /\ pc' = "done"
    /\ UNCHANGED <<doc, font_profiles, files, idx, outputs, driver, bpc>>

Next == ConstructOk \/ ConstructRaises \/ GetStructuredOutline

Spec == Init /\ [][Next]_vars

-----------------------------------------------------------------------------
(* The batch drivers *)

\* str.lower()
Lower(t) == [i \in DOMAIN t |-> LowerOf(t[i])]

\* filename.lower().endswith('.pdf')
IsPdfName(filename) ==
    /\ Len(filename) >= Len(DotPdf)
    /\ Drop(Lower(filename), Len(filename) - Len(DotPdf)) = DotPdf

\* os.path.splitext(filename)[0] of a name without directories: the name up to
\* its last dot, unless only dots come before that dot
SplitExtRoot(filename) ==
    LET dots == {i \in DOMAIN filename :
                    filename[i] = "." /\ \E j \in 1..(i - 1) : filename[j] # "."}
    IN  IF dots = {} THEN filename
        ELSE Take(filename, CHOOSE i \in dots : \A j \in dots : j <= i)

DotJson == <<".", "j", "s", "o", "n">>

\* output_path, without the output directory
OutputPath(filename) == SplitExtRoot(filename) \o DotJson

InputDir == <<"i", "n", "/">>

\* input_path
InputPath(filename) == InputDir \o filename

\* the fallback document of process_pdf (its error string is not modelled)
Fallback == [kind |-> "fallback", title |-> <<>>, outline |-> <<>>]

\* the file at `path` holds `content`
Write(out, path, content) ==
    [p \in DOMAIN out \cup {path} |-> IF p = path THEN content ELSE out[p]]

\* what process_pdf leaves at output_json: the result, or the fallback document
\* when the constructor raised (get_structured_outline raises nothing)
ProcessPdfContent(d) ==
    IF InitSucceeds(d) THEN get_structured_outline(d, analyze_fonts(d))
    ELSE Fallback

FileNames ==
    { <<"a",".","p","d","f">>, <<"b",".","P","D","F">>, <<"n",".","t","x","t">> }

\* what the files of a batch hold: a document with a TOC, one with headings to
\* detect, one whose spans fall into no size cluster, one fitz.open rejects
FileContents ==
    { Doc(<<>>, TRUE, <<[level |-> 1, title |-> <<"I","n","t","r","o">>, page |-> 2]>>,
          <<>>, <<Page(<<BodyLine>>)>>),
      Doc(<<>>, TRUE, <<>>, <<>>, <<Page(<<BodyLine, HeadLine>>)>>),
      Doc(<<>>, TRUE, <<>>, <<>>, <<Page(<<HeadLine>>)>>),
      Doc(<<>>, FALSE, <<>>, <<>>, <<>>) }

\* a directory listing: files of distinct names, in any order
Listings ==
    { fs \in SeqsUpTo([name : FileNames, content : FileContents], MaxFiles) :
        \A i, j \in DOMAIN fs : fs[i].name = fs[j].name => i = j }

InitBatch ==
    /\ files \in Listings
    /\ driver \in {"processor", "main"}
    /\ idx = 1
    /\ outputs = <<>>
    /\ bpc = "run"
    /\ doc = NoDoc
    /\ pc = "new"
    /\ font_profiles = NotBuilt
    /\ result = NoResult

\* processor.py: one turn of the loop on a name that passes the .pdf test
\* (process_pdf as a whole; the writes of the output file are taken to succeed)
ProcessPdf ==
    /\ driver = "processor" /\ bpc = "run" /\ idx <= Len(files)
    /\ IsPdfName(files[idx].name)
    /\ LET d == [files[idx].content EXCEPT !.name = InputPath(files[idx].name)]
       IN  /\ doc' = d
           /\ font_profiles' = IF InitSucceeds(d) THEN analyze_fonts(d) ELSE NotBuilt
           /\ result' = IF InitSucceeds(d) THEN ProcessPdfContent(d) ELSE NoResult
           /\ pc' = IF InitSucceeds(d) THEN "done" ELSE "failed"
           /\ outputs' = Write(outputs, OutputPath(files[idx].name), ProcessPdfContent(d))
    /\ idx' = idx + 1
    /\ UNCHANGED <<files, driver, bpc>>

\* processor.py: one turn of the loop on a name that fails the .pdf test
SkipFile ==
    /\ driver = "processor" /\ bpc = "run" /\ idx <= Len(files)
    /\ ~IsPdfName(files[idx].name)
    /\ idx' = idx + 1
    /\ UNCHANGED <<doc, pc, font_profiles, result, files, outputs, driver, bpc>>

\* processor.py: the loop is over
EndBatch ==
    /\ driver = "processor" /\ bpc = "run" /\ idx > Len(files)
    /\ bpc' = "done"
    /\ UNCHANGED <<doc, pc, font_profiles, result, files, idx, outputs, driver>>

\* main.py: `from src.processor import OutlineExtractor` names a class that
\* processor.py does not define; the import raises ImportError and the program
\* ends before process_all_pdfs is called
MainImportFails ==
    /\ driver = "main" /\ bpc = "run"
    /\ bpc' = "crashed"
    /\ UNCHANGED <<doc, pc, font_profiles, result, files, idx, outputs, driver>>

NextBatch == ProcessPdf \/ SkipFile \/ EndBatch \/ MainImportFails

SpecBatch == InitBatch /\ [][NextBatch]_vars

-----------------------------------------------------------------------------
(* The claims *)

\* the places of the TOC entries whose level is 1, 2 or 3
KeptPlaces(toc) == {i \in DOMAIN toc : toc[i].level \in {1, 2, 3}}

\* the k-th of them
KthKept(toc, k) ==
    CHOOSE i \in KeptPlaces(toc) : Cardinality({j \in KeptPlaces(toc) : j <= i}) = k

TagOf(level) == IF level = 1 THEN "H1" ELSE IF level = 2 THEN "H2" ELSE "H3"

\* C1: for a document with a non-empty native TOC the returned outline is the
\* TOC mapped entry by entry: one entry per TOC entry of level 1..3, in the
\* order of the TOC, with level "H"+level, the cleaned title and page
\* max(0, tocPage - 1); the other entries are dropped and the detector adds
\* nothing, also when every entry is dropped.
C1_TocMappedEntryByEntry ==
    (pc = "done" /\ doc.toc # <<>>) =>
        /\ Len(result.outline) = Cardinality(KeptPlaces(doc.toc))
        /\ \A k \in DOMAIN result.outline :
              LET e == doc.toc[KthKept(doc.toc, k)]
              IN  result.outline[k] =
                      [level |-> TagOf(e.level),
                       text  |-> clean_text(e.title),
                       page  |-> IF e.page - 1 > 0 THEN e.page - 1 ELSE 0]

\* a TOC whose first entry is dropped and whose second is kept with a page
\* number below 1, over pages in which the detector would find a heading
C1_Witness ==
    /\ pc = "done"
    /\ Len(doc.toc) = 2
    /\ doc.toc[1].level \notin {1, 2, 3}
    /\ doc.toc[2].level \in {1, 2, 3}
    /\ doc.toc[2].page <= 0
    /\ Len(result.outline) = 1
    /\ DetectedHeadings(doc, font_profiles) # <<>>

\* C2: every entry of a returned outline, from the TOC or from the detector,
\* has level "H1", "H2" or "H3" and a page that is not negative.
C2_LevelAndPage ==
    pc = "done" =>
        \A k \in DOMAIN result.outline :
            /\ result.outline[k].level \in {"H1", "H2", "H3"}
            /\ result.outline[k].page >= 0

\* an outline with an entry made from a TOC entry without target page (-1)
C2_Witness ==
    /\ pc = "done"
    /\ \E i \in DOMAIN doc.toc : doc.toc[i].level \in {1, 2, 3} /\ doc.toc[i].page = -1
    /\ \E k \in DOMAIN result.outline : result.outline[k].page = 0

\* the places of the detected headings whose text no earlier one has
FirstPlaces(items) ==
    {i \in DOMAIN items : \A j \in 1..(i - 1) : items[j].text # items[i].text}

KthFirst(items, k) ==
    CHOOSE i \in FirstPlaces(items) : Cardinality({j \in FirstPlaces(items) : j <= i}) = k

\* C3: on the heuristic path no two entries of the returned outline have the
\* same text: of the detected headings, the first of each cleaned text is
\* kept, in the order of detection.
C3_FirstOccurrencesKept ==
    (pc = "done" /\ doc.toc = <<>>) =>
        LET detected == DetectedHeadings(doc, font_profiles)
        IN  /\ \A i, j \in DOMAIN result.outline :
                  result.outline[i].text = result.outline[j].text => i = j
            /\ Len(result.outline) = Cardinality(FirstPlaces(detected))
            /\ \A k \in DOMAIN result.outline :
                  result.outline[k] = detected[KthFirst(detected, k)]

\* a heading detected twice, with another heading between the two
C3_Witness ==
    /\ pc = "done" /\ doc.toc = <<>>
    /\ LET detected == DetectedHeadings(doc, font_profiles)
       IN  /\ Len(detected) = 3
           /\ detected[1].text = detected[3].text
           /\ detected[1].text # detected[2].text
    /\ Len(result.outline) = 2

\* the cleaned text of the first span of page 0 that has the largest size
LargestCleaned(d) ==
    IF d.pages = <<>> \/ PageSpans(d.pages[1]) = <<>> THEN <<>>
    ELSE LET spans == PageSpans(d.pages[1])
             first == CHOOSE i \in DOMAIN spans :
                          /\ \A j \in DOMAIN spans : spans[j].size <= spans[i].size
                          /\ \A j \in 1..(i - 1) : spans[j].size < spans[i].size
         IN  clean_text(spans[first].text)

\* C4 (as claimed, last sentence): the title is the filename-derived title
\* whenever neither the metadata title nor the largest span of page 0 gives a
\* candidate that is non-empty once cleaned.
C4_FilenameWhenNoCandidate ==
    (pc = "done" /\ clean_text(doc.metaTitle) = <<>> /\ LargestCleaned(doc) = <<>>) =>
        result.title = FilenameTitle(doc)

\* C5 (as claimed): a document fitz can open gives a result, never a failure.
C5_OpenableGivesResult ==
    doc.openable => pc # "failed"

\* C6 (as claimed): a document without spans and without TOC gets an empty
\* profile, the filename-derived title and an empty outline.
C6_Original ==
    (pc = "done" /\ DocSpans(doc) = <<>> /\ doc.toc = <<>>) =>
        /\ font_profiles = EmptyProfile
        /\ result.title = FilenameTitle(doc)
        /\ result.outline = <<>>

\* C6 (amended): a document without spans and without TOC is processed without
\* raising, with an empty profile and an empty outline; its title is the
\* cleaned metadata title when that is not empty, else the filename-derived one.
C6_EmptyDocument ==
    (doc.openable /\ DocSpans(doc) = <<>> /\ doc.toc = <<>>) =>
        /\ pc # "failed"
        /\ pc \in {"ready", "done"} => font_profiles = EmptyProfile
        /\ pc = "done" =>
              /\ result.outline = <<>>
              /\ result.title = IF clean_text(doc.metaTitle) # <<>>
                                THEN clean_text(doc.metaTitle)
                                ELSE FilenameTitle(doc)

\* a page without spans and a metadata title that cleans to nothing
C6_Witness ==
    /\ pc = "done"
    /\ doc.pages # <<>> /\ DocSpans(doc) = <<>> /\ doc.toc = <<>>
    /\ doc.metaTitle # <<>>
    /\ result.title = FilenameTitle(doc)
    /\ result.outline = <<>>

\* C7 (as claimed): when a batch run has ended, every input PDF has its output
\* document, the result or the fallback error document.
C7_EveryPdfHasOutput ==
    bpc \in {"done", "crashed"} =>
        \A i \in DOMAIN files :
            IsPdfName(files[i].name) =>
                /\ OutputPath(files[i].name) \in DOMAIN outputs
                /\ outputs[OutputPath(files[i].name)].kind \in {"result", "fallback"}

\* C8 (as claimed): a line is centered exactly when its horizontal center lies
\* between 30% and 70% of the page width.
C8_CenteredIffBetween ==
    (pc = "done" /\ doc.toc = <<>>) =>
        \A i \in DOMAIN doc.pages : \A k \in DOMAIN doc.pages[i].lines :
            LET w  == doc.pages[i].width
                c2 == CenterX2(doc.pages[i].lines[k])
            IN  is_centered(<<c2, w>>, w) = (5 * c2 > 3 * w /\ 5 * c2 < 7 * w)

\* the rounded sizes that at least min_samples spans of d have and that exceed
\* 1.2 times body_size
HeadingClusterSizes(d, body_size) ==
    LET sp == DocSpans(d)
    IN  { Round(sp[i].size) : i \in
            { i \in DOMAIN sp :
                /\ Cardinality({j \in DOMAIN sp : Round(sp[j].size) = Round(sp[i].size)}) >= 5
                /\ 10 * Round(sp[i].size) > 12 * body_size } }

\* the n-th largest member of S
NthLargest(S, n) == CHOOSE x \in S : Cardinality({y \in S : y > x}) = n - 1

Smallest(S) == CHOOSE x \in S : \A y \in S : x <= y

\* C9 (as claimed): the size map has at most 3 entries, keyed H1, H2, H3, of
\* strictly descending sizes.
C9_Original ==
    font_profiles.status = "ok" =>
        /\ Len(font_profiles.size_map) <= 3
        /\ \A i \in DOMAIN font_profiles.size_map :
              font_profiles.size_map[i].lvl \in {"H1", "H2", "H3"}
        /\ \A i, j \in DOMAIN font_profiles.size_map :
              i < j => font_profiles.size_map[i].size > font_profiles.size_map[j].size

\* C9 (amended): the size map is empty when there is no heading cluster, and
\* otherwise has exactly the entries H1, H2, H3: H1 the largest heading
\* cluster size, H2 the second largest (H1 again when there is one cluster),
\* H3 the third largest (the smallest when there are fewer than three); the
\* sizes never ascend, and descend strictly only with three clusters or more.
C9_SizeMap ==
    font_profiles.status = "ok" =>
        LET hs == HeadingClusterSizes(doc, font_profiles.body_size)
            m  == font_profiles.size_map
        IN  IF hs = {} THEN m = <<>>
            ELSE /\ Len(m) = 3
                 /\ <<m[1].lvl, m[2].lvl, m[3].lvl>> = <<"H1", "H2", "H3">>
                 /\ m[1].size = NthLargest(hs, 1)
                 /\ m[2].size = IF Cardinality(hs) >= 2 THEN NthLargest(hs, 2)
                                ELSE NthLargest(hs, 1)
                 /\ m[3].size = IF Cardinality(hs) >= 3 THEN NthLargest(hs, 3)
                                ELSE Smallest(hs)
                 /\ m[1].size >= m[2].size /\ m[2].size >= m[3].size
                 /\ (m[1].size > m[2].size /\ m[2].size > m[3].size)
                        <=> Cardinality(hs) >= 3

\* two heading clusters: H3 repeats the size of H2
C9_Witness ==
    /\ font_profiles.status = "ok"
    /\ Len(font_profiles.size_map) = 3
    /\ font_profiles.size_map[1].size > font_profiles.size_map[2].size
    /\ font_profiles.size_map[2].size = font_profiles.size_map[3].size

\* C10 (as claimed): every entry of a returned outline has a non-empty text.
C10_NonEmptyText ==
    pc = "done" =>
        \A k \in DOMAIN result.outline : result.outline[k].text # <<>>

====
